---- MODULE Spec2Model ----
(***************************************************************************)
(* Model of tools/analyze_pipeline.py, the pipeline trace analyzer of the  *)
(* dual-issue RV32I core: the field decoder (decode_fields), the tolerant  *)
(* row parser (parse_trace), the metrics of main and the hazard /          *)
(* forwarding reconstruction of print_timeline.                            *)
(*                                                                         *)
(* A 32-bit word is kept as its two 16-bit halves [hi, lo], because the    *)
(* model checker's integers are 32-bit signed; shifts and masks of the     *)
(* source are taken on the halves (Bits).                                  *)
(***************************************************************************)
EXTENDS Integers, Sequences, FiniteSets, TLC

VARIABLES
    prog,       \* decoder run: the instruction words handed to decode_fields, in order
    decoded,    \* decoder run: the decoded record of each word handled so far
    header,     \* parse_trace: the column names of the trace file's header row
    rows,       \* parse_trace: the data rows of the file, column name -> cell
    entries,    \* parse_trace: the TraceEntry list built so far / returned
    pstatus,    \* parse_trace: "idle", "reading", "returned" or "raised"
    perr,       \* parse_trace: the exception that left parse_trace, or "none"
    mpc,        \* main: "idle", "start", "timeline" or "done"
    report,     \* main: the block emitted before the timeline (metrics or the no-entries line)
    timeline,   \* print_timeline: the rows emitted so far, one per cycle
    prev_exec1_fields,  \* print_timeline: decoded lane-1 execute word of the previous cycle
    prev_exec1_writes,  \* print_timeline: whether that instruction wrote a nonzero rd
    prev_rd1            \* print_timeline: that rd, or NoReg

dvars == <<prog, decoded>>
pvars == <<header, rows, entries, pstatus, perr>>
mvars == <<mpc, report, timeline, prev_exec1_fields, prev_exec1_writes, prev_rd1>>
vars == <<prog, decoded, header, rows, entries, pstatus, perr,
          mpc, report, timeline, prev_exec1_fields, prev_exec1_writes, prev_rd1>>

Range(s) == {s[i] : i \in DOMAIN s}

(***************************************************************************)
(* 32-bit words                                                            *)
(***************************************************************************)
W(h, l) == [hi |-> h, lo |-> l]

Pow2(n) == 2 ^ n

\* bit i of the word: (w >> i) & 1
Bit(w, i) == IF i < 16 THEN (w.lo \div Pow2(i)) % 2 ELSE (w.hi \div Pow2(i - 16)) % 2

\* (w >> lo) & ((1 << n) - 1)
RECURSIVE Bits(_, _, _)
Bits(w, lo, n) == IF n = 0 THEN 0 ELSE Bit(w, lo) + 2 * Bits(w, lo + 1, n - 1)

ZeroWord == W(0, 0)

NOP == W(0, 19)

\* w & 0xFFFFF000
MaskUpper20(w) == W(w.hi, w.lo - (w.lo % 4096))

(***************************************************************************)
(* sign_extend, decode_fields                                              *)
(***************************************************************************)
\* a variant that zero-extends
sign_extend_Unsigned(value, bits) == value % Pow2(bits)

\* sign_bit = 1 << (bits - 1); (value & (sign_bit - 1)) - (value & sign_bit)
sign_extend(value, bits) ==
    LET sign_bit == Pow2(bits - 1)
    IN  (value % sign_bit) - (((value \div sign_bit) % 2) * sign_bit)

NoImm == [some |-> FALSE]
ImmInt(v) == [some |-> TRUE, val |-> v]
ImmWord(w) == [some |-> TRUE, word |-> w]

alu_map(funct7, funct3) ==
    CASE funct7 = 0 /\ funct3 = 0 -> "add"
      [] funct7 = 32 /\ funct3 = 0 -> "sub"
      [] funct7 = 0 /\ funct3 = 1 -> "sll"
      [] funct7 = 0 /\ funct3 = 2 -> "slt"
      [] funct7 = 0 /\ funct3 = 3 -> "sltu"
      [] funct7 = 0 /\ funct3 = 4 -> "xor"
      [] funct7 = 0 /\ funct3 = 5 -> "srl"
      [] funct7 = 32 /\ funct3 = 5 -> "sra"
      [] funct7 = 0 /\ funct3 = 6 -> "or"
      [] funct7 = 0 /\ funct3 = 7 -> "and"
      [] OTHER -> "r-op"

ialu_map(funct3) ==
    CASE funct3 = 0 -> "addi"
      [] funct3 = 2 -> "slti"
      [] funct3 = 3 -> "sltiu"
      [] funct3 = 4 -> "xori"
      [] funct3 = 6 -> "ori"
      [] funct3 = 7 -> "andi"
      [] OTHER -> "i-op"

load_map(funct3) ==
    CASE funct3 = 0 -> "lb"
      [] funct3 = 1 -> "lh"
      [] funct3 = 2 -> "lw"
      [] funct3 = 4 -> "lbu"
      [] funct3 = 5 -> "lhu"
      [] OTHER -> "load"

store_map(funct3) ==
    CASE funct3 = 0 -> "sb"
      [] funct3 = 1 -> "sh"
      [] funct3 = 2 -> "sw"
      [] OTHER -> "store"

branch_map(funct3) ==
    CASE funct3 = 0 -> "beq"
      [] funct3 = 1 -> "bne"
      [] funct3 = 4 -> "blt"
      [] funct3 = 5 -> "bge"
      [] funct3 = 6 -> "bltu"
      [] funct3 = 7 -> "bgeu"
      [] OTHER -> "branch"

\* the immediates of the S, B and J formats, as decode_fields assembles them
StoreImm(w) == sign_extend(Bits(w, 25, 7) * 32 + Bits(w, 7, 5), 12)

BranchImm(w) ==
    sign_extend(Bits(w, 31, 1) * 4096 + Bits(w, 7, 1) * 2048
                + Bits(w, 25, 6) * 32 + Bits(w, 8, 4) * 2, 13)

JalImm(w) ==
    sign_extend(Bits(w, 31, 1) * 1048576 + Bits(w, 12, 8) * 4096
                + Bits(w, 20, 1) * 2048 + Bits(w, 21, 10) * 2, 21)

IAluImm(w) ==
    IF Bits(w, 12, 3) \in {1, 5} THEN Bits(w, 20, 12)
    ELSE sign_extend(Bits(w, 20, 12), 12)

IAluMnemonic(funct3, funct7) ==
    IF funct3 = 1 THEN "slli"
    ELSE IF funct3 = 5
         THEN (IF (funct7 \div 32) % 2 = 1 THEN "srai" ELSE "srli")
         ELSE ialu_map(funct3)

\* a variant that knows the all-zero word only
IsNopWord_ZeroOnly(w) == w = ZeroWord

\* instr == 0 or instr == NOP
IsNopWord(w) == w = ZeroWord \/ w = NOP

decode_fields(w) ==
    LET opcode == Bits(w, 0, 7)
        rd == Bits(w, 7, 5)
        funct3 == Bits(w, 12, 3)
        rs1 == Bits(w, 15, 5)
        rs2 == Bits(w, 20, 5)
        funct7 == Bits(w, 25, 7)
        base == [opcode |-> opcode, rd |-> rd, rs1 |-> rs1, rs2 |-> rs2,
                 funct3 |-> funct3, funct7 |-> funct7,
                 imm |-> NoImm, mnemonic |-> "unknown"]
    IN  IF IsNopWord(w)
        THEN [base EXCEPT !.mnemonic = "nop"]
        ELSE CASE opcode = 51 ->
                    [base EXCEPT !.mnemonic = alu_map(funct7, funct3)]
               [] opcode = 19 ->
                    [base EXCEPT !.imm = ImmInt(IAluImm(w)),
                                 !.mnemonic = IAluMnemonic(funct3, funct7)]
               [] opcode = 3 ->
                    [base EXCEPT !.imm = ImmInt(sign_extend(Bits(w, 20, 12), 12)),
                                 !.mnemonic = load_map(funct3)]
               [] opcode = 35 ->
                    [base EXCEPT !.imm = ImmInt(StoreImm(w)),
                                 !.mnemonic = store_map(funct3)]
               [] opcode = 99 ->
                    [base EXCEPT !.imm = ImmInt(BranchImm(w)),
                                 !.mnemonic = branch_map(funct3)]
               [] opcode = 111 ->
                    [base EXCEPT !.imm = ImmInt(JalImm(w)), !.mnemonic = "jal"]
               [] opcode = 103 ->
                    [base EXCEPT !.imm = ImmInt(sign_extend(Bits(w, 20, 12), 12)),
                                 !.mnemonic = "jalr"]
               [] opcode = 55 ->
                    [base EXCEPT !.imm = ImmWord(MaskUpper20(w)), !.mnemonic = "lui"]
               [] opcode = 23 ->
                    [base EXCEPT !.imm = ImmWord(MaskUpper20(w)), !.mnemonic = "auipc"]
               [] opcode = 115 ->
                    [base EXCEPT !.mnemonic = "system"]
               [] OTHER -> base

(***************************************************************************)
(* The decoder applied to one word: the words are assembled from small     *)
(* sets of field values, so that every format, every funct3 and both signs *)
(* of every immediate occur.                                               *)
(***************************************************************************)
OpcodeSet == {51, 19, 3, 35, 99, 111, 103, 55, 23, 115, 0, 127}
RegSet == {0, 5, 6, 8, 31}
Funct7Set == {0, 32, 64, 127}

\* opcode | rd << 7 | funct3 << 12 | rs1 << 15 | rs2 << 20 | funct7 << 25
MkWord(opcode, rd, funct3, rs1, rs2, funct7) ==
    W((rs1 \div 2) + rs2 * 16 + funct7 * 512,
      opcode + rd * 128 + funct3 * 4096 + (rs1 % 2) * 32768)

DecodeWords ==
    {MkWord(op, rd, f3, rs1, rs2, f7) :
        op \in OpcodeSet, rd \in RegSet, f3 \in 0..7,
        rs1 \in {0, 5, 6, 31}, rs2 \in {0, 6, 31}, f7 \in Funct7Set}

\* the second word of a run: the two encodings of a NOP
SecondWords == {ZeroWord, NOP}

DecoderIdle == prog = <<>> /\ decoded = <<>>

ParserIdle ==
    /\ header = <<>>
    /\ rows = <<>>
    /\ entries = <<>>
    /\ pstatus = "idle"
    /\ perr = "none"

NoFields == [mnemonic |-> "none"]
NoReg == [some |-> FALSE]
SomeReg(r) == [some |-> TRUE, val |-> r]
NoReport == [kind |-> "none"]

MainIdle ==
    /\ mpc = "idle"
    /\ report = NoReport
    /\ timeline = <<>>
    /\ prev_exec1_fields = NoFields
    /\ prev_exec1_writes = FALSE
    /\ prev_rd1 = NoReg

DecodeInit ==
    /\ prog \in {<<a, b>> : a \in DecodeWords, b \in SecondWords}
    /\ decoded = <<>>
    /\ ParserIdle
    /\ MainIdle

\* one call of decode_fields, on the next word of the run
Decode ==
    /\ Len(decoded) < Len(prog)
    /\ decoded' = Append(decoded, decode_fields(prog[Len(decoded) + 1]))
    /\ UNCHANGED <<prog, pvars, mvars>>

DecodeNext == Decode

SpecDecode == DecodeInit /\ [][DecodeNext]_vars

(***************************************************************************)
(* parse_trace: cell texts are sequences of characters; a cell of a row    *)
(* shorter than the header is None (csv.DictReader's restval), a column    *)
(* the header lacks is no key of the row.                                  *)
(***************************************************************************)
None == [none |-> TRUE]
Text(s) == [none |-> FALSE, s |-> s]

Ok(v) == [ok |-> TRUE, val |-> v]
Raise(e) == [ok |-> FALSE, err |-> e]

Whitespace == {" "}

RECURSIVE LStrip(_)
LStrip(s) == IF s # <<>> /\ Head(s) \in Whitespace THEN LStrip(Tail(s)) ELSE s

RECURSIVE RStrip(_)
RStrip(s) ==
    IF s # <<>> /\ s[Len(s)] \in Whitespace THEN RStrip(SubSeq(s, 1, Len(s) - 1)) ELSE s

\* str.strip()
Strip(s) == RStrip(LStrip(s))

UpperLetters == <<"A", "B", "C", "D", "E", "F", "G", "H", "I", "J", "K", "L", "M",
                  "N", "O", "P", "Q", "R", "S", "T", "U", "V", "W", "X", "Y", "Z">>
LowerLetters == <<"a", "b", "c", "d", "e", "f", "g", "h", "i", "j", "k", "l", "m",
                  "n", "o", "p", "q", "r", "s", "t", "u", "v", "w", "x", "y", "z">>

LowerChar(c) ==
    IF \E i \in DOMAIN UpperLetters : UpperLetters[i] = c
    THEN LowerLetters[CHOOSE i \in DOMAIN UpperLetters : UpperLetters[i] = c]
    ELSE c

\* str.lower()
Lower(s) == [i \in DOMAIN s |-> LowerChar(s[i])]

\* any(c in lower for c in ("x", "z", "?"))
HasUnknown(s) == \E i \in DOMAIN s : s[i] \in {"x", "z", "?"}

DecDigits == <<"0", "1", "2", "3", "4", "5", "6", "7", "8", "9">>
HexLetters == <<"a", "b", "c", "d", "e", "f">>

IsDecDigit(c) == \E i \in DOMAIN DecDigits : DecDigits[i] = c
DecDigit(c) == (CHOOSE i \in DOMAIN DecDigits : DecDigits[i] = c) - 1

IsHexDigit(c) == IsDecDigit(c) \/ \E i \in DOMAIN HexLetters : HexLetters[i] = LowerChar(c)
HexDigit(c) ==
    IF IsDecDigit(c) THEN DecDigit(c)
    ELSE 9 + (CHOOSE i \in DOMAIN HexLetters : HexLetters[i] = LowerChar(c))

\* the value of a string of hex digits, as a 32-bit word (at most 8 digits are modelled)
RECURSIVE HexAcc(_, _)
HexAcc(s, acc) ==
    IF s = <<>> THEN acc
    ELSE LET d == HexDigit(Head(s))
             l == acc.lo * 16 + d
         IN  HexAcc(Tail(s), W(acc.hi * 16 + (l \div 65536), l % 65536))

RECURSIVE DecAcc(_, _)
DecAcc(s, acc) == IF s = <<>> THEN acc ELSE DecAcc(Tail(s), acc * 10 + DecDigit(Head(s)))

\* int(s, 16) of a stripped string: digits only (sign, "0x" and "_" forms are not modelled)
IntBase16(s) ==
    IF s # <<>> /\ \A i \in DOMAIN s : IsHexDigit(s[i])
    THEN Ok(HexAcc(s, ZeroWord))
    ELSE Raise("ValueError")

\* int(s): base 10, surrounding whitespace accepted
IntBase10(s) ==
    LET t == Strip(s)
    IN  IF t # <<>> /\ \A i \in DOMAIN t : IsDecDigit(t[i])
        THEN Ok(DecAcc(t, 0))
        ELSE Raise("ValueError")

\* int(s, 0) of a stripped string: a decimal literal has no leading zero unless it is zero
\* (the "0b", "0o" forms are not modelled; "0x" never gets here)
IntBase0(s) ==
    IF /\ s # <<>>
       /\ \A i \in DOMAIN s : IsDecDigit(s[i])
       /\ (s[1] # "0" \/ \A i \in DOMAIN s : s[i] = "0")
    THEN Ok(DecAcc(s, 0))
    ELSE Raise("ValueError")

safe_hex(c, default) ==
    IF c.none THEN Ok(default)
    ELSE LET s == Strip(c.s)
         IN  IF s = <<>> THEN Ok(default)
             ELSE IF HasUnknown(Lower(s)) THEN Ok(default)
             ELSE IntBase16(s)

safe_int_field(c, default) ==
    IF c.none THEN Ok(default)
    ELSE LET s == Strip(c.s)
         IN  IF s = <<>> THEN Ok(default)
             ELSE IF HasUnknown(Lower(s)) THEN Ok(default)
             ELSE IF IntBase0(s).ok THEN IntBase0(s) ELSE Ok(default)

TrueTexts == {<<"1">>, <<"t", "r", "u", "e">>, <<"y", "e", "s">>, <<"y">>}

\* a lenient variant: anything but an explicit "no" is true
parse_bool_Lenient(c) ==
    IF c.none THEN Ok(FALSE)
    ELSE Ok(Lower(Strip(c.s)) \notin {<<>>, <<"0">>, <<"n", "o">>, <<"f", "a", "l", "s", "e">>})

parse_bool(c) ==
    IF c.none THEN Ok(FALSE)
    ELSE Ok(Lower(Strip(c.s)) \in TrueTexts)

(***************************************************************************)
(* The TraceEntry fields in constructor order: the column each is read     *)
(* from and the parser applied to it.                                      *)
(***************************************************************************)
F(field, column, kind) == [field |-> field, column |-> column, kind |-> kind]

FieldSpecs == <<
    F("cycle", "cycle", "cycle"), F("pc_f", "pc_f", "pc"),
    F("fetch0", "fetch0", "hex"), F("fetch1", "fetch1", "hex"),
    F("decode0", "decode0", "hex"), F("decode1", "decode1", "hex"),
    F("issue0", "issue0", "bool"), F("issue1", "issue1", "bool"),
    F("exec0", "exec0", "hex"), F("exec1", "exec1", "hex"),
    F("result0", "result0", "hex"), F("result1", "result1", "hex"),
    F("branch_taken0", "branch_taken0", "bool"), F("branch_taken1", "branch_taken1", "bool"),
    F("jump_taken0", "jump_taken0", "bool"), F("jump_taken1", "jump_taken1", "bool"),
    F("branch_target0", "branch_target0", "hex"), F("branch_target1", "branch_target1", "hex"),
    F("jump_target0", "jump_target0", "hex"), F("jump_target1", "jump_target1", "hex"),
    F("mem0_re", "mem0_re", "bool"), F("mem0_we", "mem0_we", "bool"),
    F("mem1_re", "mem1_re", "bool"), F("mem1_we", "mem1_we", "bool"),
    F("mem_addr0", "mem_addr0", "hex"), F("mem_addr1", "mem_addr1", "hex"),
    F("fwd_rs1_0_en", "fwd_rs1_0_en", "bool"), F("fwd_rs2_0_en", "fwd_rs2_0_en", "bool"),
    F("fwd_rs1_1_src", "fwd_rs1_1_src", "int"), F("fwd_rs2_1_src", "fwd_rs2_1_src", "int"),
    F("stall_if", "stall_if_id", "bool"),
    F("raw1", "raw1", "bool"), F("waw1", "waw1", "bool"),
    F("load_use0", "load_use0", "bool"), F("load_use1", "load_use1", "bool"),
    F("busy_vec", "busy_vec", "hex"), F("load_pending_vec", "load_pending_vec", "hex") >>

FieldNames == {FieldSpecs[i].field : i \in DOMAIN FieldSpecs}
FieldIndex == [f \in FieldNames |-> CHOOSE i \in DOMAIN FieldSpecs : FieldSpecs[i].field = f]
FieldKind == [f \in FieldNames |-> FieldSpecs[FieldIndex[f]].kind]
FieldsOfKind(k) == {f \in FieldNames : FieldKind[f] = k}

\* row.get(column, default)
RowGet(row, column, default) == IF column \in DOMAIN row THEN row[column] ELSE Text(default)

\* the value parse_trace computes for one constructor argument, or the exception
\* that evaluating it raises
CellResult(fs, row) ==
    CASE fs.kind = "cycle" ->
            IF fs.column \notin DOMAIN row THEN Raise("KeyError")
            ELSE IF row[fs.column].none THEN Raise("TypeError")
            ELSE IntBase10(row[fs.column].s)
      [] fs.kind = "pc" ->
            IF fs.column \notin DOMAIN row THEN Raise("KeyError")
            ELSE safe_hex(row[fs.column], ZeroWord)
      [] fs.kind = "hex" -> safe_hex(RowGet(row, fs.column, <<"0">>), ZeroWord)
      [] fs.kind = "bool" -> parse_bool(RowGet(row, fs.column, <<"0">>))
      [] fs.kind = "int" -> safe_int_field(RowGet(row, fs.column, <<"0">>), 0)

\* pc_str = row.get("pc_f", ""); the row ends the usable trace when it is None or unknown
PcStops(row) ==
    LET pc_str == RowGet(row, "pc_f", <<>>)
    IN  IF pc_str.none THEN TRUE ELSE HasUnknown(Lower(pc_str.s))

RowResults(row) == [i \in DOMAIN FieldSpecs |-> CellResult(FieldSpecs[i], row)]

RowRaises(row) == \E i \in DOMAIN FieldSpecs : ~CellResult(FieldSpecs[i], row).ok

\* arguments are evaluated in order: the first that raises decides the exception
RowError(row) ==
    LET res == RowResults(row)
        i == CHOOSE k \in DOMAIN FieldSpecs :
                 ~res[k].ok /\ \A j \in 1..(k - 1) : res[j].ok
    IN  res[i].err

\* TraceEntry(cycle=..., pc_f=..., ...): the i-th argument is the i-th of FieldSpecs
MakeEntry(row) ==
    LET res == RowResults(row)
    IN  [ cycle |-> res[1].val, pc_f |-> res[2].val, fetch0 |-> res[3].val,
          fetch1 |-> res[4].val, decode0 |-> res[5].val, decode1 |-> res[6].val,
          issue0 |-> res[7].val, issue1 |-> res[8].val, exec0 |-> res[9].val,
          exec1 |-> res[10].val, result0 |-> res[11].val, result1 |-> res[12].val,
          branch_taken0 |-> res[13].val, branch_taken1 |-> res[14].val,
          jump_taken0 |-> res[15].val, jump_taken1 |-> res[16].val,
          branch_target0 |-> res[17].val, branch_target1 |-> res[18].val,
          jump_target0 |-> res[19].val, jump_target1 |-> res[20].val,
          mem0_re |-> res[21].val, mem0_we |-> res[22].val,
          mem1_re |-> res[23].val, mem1_we |-> res[24].val,
          mem_addr0 |-> res[25].val, mem_addr1 |-> res[26].val,
          fwd_rs1_0_en |-> res[27].val, fwd_rs2_0_en |-> res[28].val,
          fwd_rs1_1_src |-> res[29].val, fwd_rs2_1_src |-> res[30].val,
          stall_if |-> res[31].val, raw1 |-> res[32].val, waw1 |-> res[33].val,
          load_use0 |-> res[34].val, load_use1 |-> res[35].val,
          busy_vec |-> res[36].val, load_pending_vec |-> res[37].val ]

NextRow == rows[Len(entries) + 1]

\* the loop body on a usable row: entries.append(TraceEntry(...))
ParseRowKeep ==
    /\ pstatus = "reading"
    /\ Len(entries) < Len(rows)
    /\ ~PcStops(NextRow)
    /\ ~RowRaises(NextRow)
    /\ entries' = Append(entries, MakeEntry(NextRow))
    /\ UNCHANGED <<header, rows, pstatus, perr, dvars, mvars>>

\* the loop body on a row whose PC is None or unknown: break, then return entries
ParseRowStop ==
    /\ pstatus = "reading"
    /\ Len(entries) < Len(rows)
    /\ PcStops(NextRow)
    /\ pstatus' = "returned"
    /\ UNCHANGED <<header, rows, entries, perr, dvars, mvars>>

\* the loop body on a row one of whose cells makes the constructor call raise
ParseRowRaise ==
    /\ pstatus = "reading"
    /\ Len(entries) < Len(rows)
    /\ ~PcStops(NextRow)
    /\ RowRaises(NextRow)
    /\ pstatus' = "raised"
    /\ perr' = RowError(NextRow)
    /\ UNCHANGED <<header, rows, entries, dvars, mvars>>

\* the reader is exhausted: return entries
ParseEnd ==
    /\ pstatus = "reading"
    /\ Len(entries) = Len(rows)
    /\ pstatus' = "returned"
    /\ UNCHANGED <<header, rows, entries, perr, dvars, mvars>>

ParseNext == ParseRowKeep \/ ParseRowStop \/ ParseRowRaise \/ ParseEnd

(***************************************************************************)
(* The trace files parse_trace is run on: well-formed rows, then one row   *)
(* with one cell replaced by a token of its column's kind (or a row cut    *)
(* short), then at most one more row that is well-formed, carries an       *)
(* unknown PC or carries an unknown instruction word; and files whose      *)
(* header lacks one column.                                                *)
(***************************************************************************)
MaxRows == 3

FullHeader == [i \in DOMAIN FieldSpecs |-> FieldSpecs[i].column]

HeaderWithout(c) == SelectSeq(FullHeader, LAMBDA x : x # c)

KindOfColumn(c) ==
    FieldSpecs[CHOOSE i \in DOMAIN FieldSpecs : FieldSpecs[i].column = c].kind

HexTokens == { <<"1", "f">>, <<"z", "z">>, <<>>, <<" ", "7", " ">>, <<"g">>, <<"X", "1">>,
               <<"F", "F", "F", "3", "0", "2", "9", "3">> }

PcTokens == HexTokens \cup { <<"x", "x", "x", "x", "x", "x", "x", "x">>,
                            <<"0", "0", "Z", "0">>, <<"?">> }

BoolTokens == { <<"1">>, <<"0">>, <<"T", "R", "U", "E">>, <<"t", "r", "u", "e">>,
                <<" ", "y", " ">>, <<"Y", "e", "s">>, <<"x">>, <<>>, <<"2">>,
                <<"n", "o">>, <<"1", "x">>, <<"o", "n">> }

IntTokens == { <<"1">>, <<"2">>, <<"z", "z">>, <<"a", "b", "c">>, <<>>, <<"0", "1">>,
               <<" ", "1", " ">>, <<"0", "x", "1">> }

CycleTokens == { <<"7">>, <<"z", "z">>, <<>>, <<" ", "3", " ">>, <<"0", "0", "7">>,
                 <<"1", "f">> }

TokensOf(kind) ==
    CASE kind = "cycle" -> CycleTokens
      [] kind = "pc" -> PcTokens
      [] kind = "hex" -> HexTokens
      [] kind = "bool" -> BoolTokens
      [] kind = "int" -> IntTokens

\* the k-th row of a well-formed trace
PlainRow(h, k) ==
    [c \in Range(h) |->
        CASE c = "cycle" -> Text(<<DecDigits[k + 1]>>)
          [] c = "pc_f" -> Text(<<"0", "0", "0", "0", "0", "0", "0", HexLetters[k]>>)
          [] OTHER -> Text(<<"0">>)]

WithCell(row, c, cell) == [x \in DOMAIN row |-> IF x = c THEN cell ELSE row[x]]

\* a row with only its first n cells: the others are None
ShortRow(h, k, n) ==
    [c \in Range(h) |->
        IF (CHOOSE i \in DOMAIN h : h[i] = c) <= n THEN PlainRow(h, k)[c] ELSE None]

SpecialRows(h, k) ==
    UNION {{WithCell(PlainRow(h, k), h[i], Text(t)) : t \in TokensOf(KindOfColumn(h[i]))} :
           i \in DOMAIN h}
    \cup {ShortRow(h, k, n) : n \in 1..(Len(h) - 1)}

TailKinds == {"plain", "pcx", "zz"}

TailRow(h, k, kind) ==
    CASE kind = "plain" -> PlainRow(h, k)
      [] kind = "pcx" -> WithCell(PlainRow(h, k), "pc_f", Text(<<"x", "x", "x", "x">>))
      [] kind = "zz" -> WithCell(PlainRow(h, k), "decode0", Text(<<"z", "z">>))

TailSeqs(h, start, len) ==
    {[i \in 1..len |-> TailRow(h, start + i - 1, choice[i])] :
        choice \in [1..len -> TailKinds]}

PlainPrefix(h, n) == [i \in 1..n |-> PlainRow(h, i)]

\* well-formed rows, one special row, at most one row after it
SpecialTrace(h, rs) ==
    \E a \in 0..(MaxRows - 1) :
        \E sp \in SpecialRows(h, a + 1),
           t \in UNION {TailSeqs(h, a + 2, l) : l \in 0..(IF a + 1 < MaxRows THEN 1 ELSE 0)} :
            rs = PlainPrefix(h, a) \o <<sp>> \o t

PlainTrace(h, rs) == \E n \in 0..MaxRows : rs = PlainPrefix(h, n)

\* a file whose header lacks column c
ReducedTrace(h, rs) ==
    \E l \in 1..MaxRows : \E t \in TailSeqs(h, 1, l) : rs = t

ParseInit ==
    /\ \/ header = FullHeader /\ SpecialTrace(FullHeader, rows)
       \/ header = FullHeader /\ PlainTrace(FullHeader, rows)
       \/ \E c \in Range(FullHeader) :
             /\ header = HeaderWithout(c)
             /\ ReducedTrace(HeaderWithout(c), rows)
    /\ entries = <<>>
    /\ pstatus = "reading"
    /\ perr = "none"
    /\ DecoderIdle
    /\ MainIdle

SpecParse == ParseInit /\ [][ParseNext]_vars

(***************************************************************************)
(* Mnemonic classes, compute_hazards, the metrics of main                  *)
(***************************************************************************)
RTypeOps == {"add", "sub", "sll", "slt", "sltu", "xor", "srl", "sra", "or", "and"}
ITypeOps == {"addi", "slti", "sltiu", "xori", "ori", "andi", "slli", "srli", "srai"}
LoadOps == {"lb", "lh", "lw", "lbu", "lhu"}
StoreOps == {"sb", "sh", "sw"}
BranchOps == {"beq", "bne", "blt", "bge", "bltu", "bgeu"}

RS1_USERS == RTypeOps \cup ITypeOps \cup LoadOps \cup StoreOps \cup BranchOps \cup {"jalr"}
RS2_USERS == RTypeOps \cup StoreOps \cup BranchOps
WRITES_RD == RTypeOps \cup ITypeOps \cup LoadOps \cup {"jal", "jalr", "lui", "auipc"}

uses_rs1(mnemonic) == mnemonic \in RS1_USERS
uses_rs2(mnemonic) == mnemonic \in RS2_USERS
writes_rd(mnemonic) == mnemonic \in WRITES_RD

format_fwd_src(src) == CASE src = 1 -> "EX1" [] src = 2 -> "EX0" [] OTHER -> "REG"

\* a variant that forgets to skip a destination register of 0
HazardAt_CountsX0(es, i) ==
    LET dec == decode_fields(es[i].decode0)
        prev == decode_fields(es[i - 1].exec0)
    IN  /\ prev.mnemonic # "nop"
        /\ dec.mnemonic # "nop"
        /\ (dec.rs1 = prev.rd \/ dec.rs2 = prev.rd)

\* the body of compute_hazards' loop for index i (1-based, i >= 2): whether it counts
HazardAt(es, i) ==
    LET dec == decode_fields(es[i].decode0)
        prev == decode_fields(es[i - 1].exec0)
    IN  /\ prev.mnemonic # "nop"
        /\ prev.rd # 0
        /\ dec.mnemonic # "nop"
        /\ (dec.rs1 = prev.rd \/ dec.rs2 = prev.rd)

RECURSIVE HazardLoop(_, _, _)
HazardLoop(es, i, potential_raw) ==
    IF i > Len(es) THEN potential_raw
    ELSE HazardLoop(es, i + 1, IF HazardAt(es, i) THEN potential_raw + 1 ELSE potential_raw)

compute_hazards(es) == HazardLoop(es, 2, 0)

\* sum(1 for e in trace_entries if P(e))
CountIf(es, P(_)) == Cardinality({i \in DOMAIN es : P(es[i])})

\* bin(v).count("1")
PopCount(w) == Cardinality({i \in 0..31 : Bit(w, i) = 1})

RECURSIVE SumPop(_, _)
SumPop(es, i) == IF i > Len(es) THEN 0 ELSE PopCount(es[i].busy_vec) + SumPop(es, i + 1)

\* a quotient of the report, kept exact: num / den, or infinity
Ratio(n, d) == [inf |-> FALSE, num |-> n, den |-> d]
Infinity == [inf |-> TRUE, num |-> 0, den |-> 1]

Retires(word) == word # ZeroWord /\ word # NOP

Metrics(es) ==
    LET total_cycles == Len(es)
        retired0 == CountIf(es, LAMBDA e : Retires(e.exec0))
        retired1 == CountIf(es, LAMBDA e : Retires(e.exec1))
        retired == retired0 + retired1
    IN  [kind |-> "metrics",
         total_cycles |-> total_cycles,
         retired |-> retired,
         cpi |-> IF retired = 0 THEN Infinity ELSE Ratio(total_cycles, retired),
         ipc |-> IF total_cycles = 0 THEN Ratio(0, 1) ELSE Ratio(retired, total_cycles),
         branches_taken |-> CountIf(es, LAMBDA e : e.branch_taken0 \/ e.branch_taken1),
         potential_raw |-> compute_hazards(es),
         stall_cycles |-> CountIf(es, LAMBDA e : e.stall_if),
         forwarding_cycles |->
             CountIf(es, LAMBDA e : \/ e.fwd_rs1_0_en
                                    \/ e.fwd_rs2_0_en
                                    \/ e.fwd_rs1_1_src \in {1, 2}
                                    \/ e.fwd_rs2_1_src \in {1, 2}),
         avg_busy |-> IF total_cycles # 0 THEN Ratio(SumPop(es, 1), total_cycles)
                      ELSE Ratio(0, 1)]

(***************************************************************************)
(* print_timeline: the Notes column of one cycle.  A note part is a tag    *)
(* with the address or bitmask it is printed with, if any.                 *)
(***************************************************************************)
Tag(t) == [tag |-> t, arg |-> <<>>]
TagAt(t, w) == [tag |-> t, arg |-> <<w>>]

When(cond, part) == IF cond THEN <<part>> ELSE <<>>

MemMode(re, we) ==
    CASE re /\ we -> "RW" [] re /\ ~we -> "R" [] ~re /\ we -> "W" [] OTHER -> ""

Mem0Tag(mode) == CASE mode = "RW" -> "MEM0(RW)@" [] mode = "R" -> "MEM0(R)@" [] OTHER -> "MEM0(W)@"
Mem1Tag(mode) == CASE mode = "RW" -> "MEM1(RW)@" [] mode = "R" -> "MEM1(R)@" [] OTHER -> "MEM1(W)@"

F1Rs1Tag(label) ==
    CASE label = "EX1" -> "F1_RS1=EX1" [] label = "EX0" -> "F1_RS1=EX0" [] OTHER -> "F1_RS1=REG"
F1Rs2Tag(label) ==
    CASE label = "EX1" -> "F1_RS2=EX1" [] label = "EX0" -> "F1_RS2=EX0" [] OTHER -> "F1_RS2=REG"

\* exec1_writes_now
\* a variant that takes any nonzero rd bits for a write
Exec1Writes_AnyMnemonic(exec1_fields) == exec1_fields.rd # 0

Exec1Writes(exec1_fields) == writes_rd(exec1_fields.mnemonic) /\ exec1_fields.rd # 0

\* uses0 of the cross-cycle analysis
Uses0(dec0_fields, rd1_prev) ==
    \/ uses_rs1(dec0_fields.mnemonic) /\ dec0_fields.rs1 = rd1_prev
    \/ uses_rs2(dec0_fields.mnemonic) /\ dec0_fields.rs2 = rd1_prev

Rs1Uses1(dec1_fields, rd1_prev) == uses_rs1(dec1_fields.mnemonic) /\ dec1_fields.rs1 = rd1_prev
Rs2Uses1(dec1_fields, rd1_prev) == uses_rs2(dec1_fields.mnemonic) /\ dec1_fields.rs2 = rd1_prev

\* whether the producer state of the previous cycle is consulted at all
ProducerPending(writes, rd1) == writes /\ rd1.some

\* a variant that forgets lane 1
ConsumerNotInSlot1_NoLane1(writes, rd1, dec0_fields, dec1_fields) ==
    IF ProducerPending(writes, rd1) THEN Uses0(dec0_fields, rd1.val) ELSE FALSE

ConsumerNotInSlot1(writes, rd1, dec0_fields, dec1_fields) ==
    IF ProducerPending(writes, rd1)
    THEN /\ Uses0(dec0_fields, rd1.val)
         /\ ~(Rs1Uses1(dec1_fields, rd1.val) \/ Rs2Uses1(dec1_fields, rd1.val))
    ELSE FALSE

\* a variant that checks the rs1 forwarding source only
ExpectedEx1FwdMissing_Rs1Only(writes, rd1, dec1_fields, e) ==
    IF ProducerPending(writes, rd1)
    THEN Rs1Uses1(dec1_fields, rd1.val) /\ e.fwd_rs1_1_src # 1
    ELSE FALSE

ExpectedEx1FwdMissing(writes, rd1, dec1_fields, e) ==
    IF ProducerPending(writes, rd1)
    THEN \/ Rs1Uses1(dec1_fields, rd1.val) /\ e.fwd_rs1_1_src # 1
         \/ Rs2Uses1(dec1_fields, rd1.val) /\ e.fwd_rs2_1_src # 1
    ELSE FALSE

\* a variant that renders the flag as it is
Raw1Shown_AsIs(e, dec1_fields) == e.raw1

\* the scoreboard RAW tag of lane 1
Raw1Shown(e, dec1_fields) ==
    e.raw1 /\ (uses_rs1(dec1_fields.mnemonic) \/ uses_rs2(dec1_fields.mnemonic))

NoteParts(e, writes, rd1) ==
    LET dec0_fields == decode_fields(e.decode0)
        dec1_fields == decode_fields(e.decode1)
        exec0_fields == decode_fields(e.exec0)
        exec1_fields == decode_fields(e.exec1)
    IN  When(e.branch_taken0, TagAt("BR0->", e.branch_target0))
        \o When(e.branch_taken1, TagAt("BR1->", e.branch_target1))
        \o When(e.jump_taken0, TagAt("J0->", e.jump_target0))
        \o When(e.jump_taken1, TagAt("J1->", e.jump_target1))
        \o When(e.mem0_re \/ e.mem0_we, TagAt(Mem0Tag(MemMode(e.mem0_re, e.mem0_we)), e.mem_addr0))
        \o When(e.mem1_re \/ e.mem1_we, TagAt(Mem1Tag(MemMode(e.mem1_re, e.mem1_we)), e.mem_addr1))
        \o When(e.fwd_rs1_0_en, Tag("F0_RS1=EX0"))
        \o When(e.fwd_rs2_0_en, Tag("F0_RS2=EX0"))
        \o <<Tag(F1Rs1Tag(format_fwd_src(e.fwd_rs1_1_src)))>>
        \o <<Tag(F1Rs2Tag(format_fwd_src(e.fwd_rs2_1_src)))>>
        \o When(e.fwd_rs1_1_src = 1 \/ e.fwd_rs2_1_src = 1, Tag("EX1->ID1_OK"))
        \o When(Raw1Shown(e, dec1_fields), Tag("RAW1(scoreboard)"))
        \o When(e.waw1, Tag("WAW1(scoreboard)"))
        \o When(e.load_use0, Tag("LDUSE0"))
        \o When(e.load_use1, Tag("LDUSE1"))
        \o When(e.stall_if, Tag("STALL(load-use0)"))
        \o When(ConsumerNotInSlot1(writes, rd1, dec0_fields, dec1_fields),
                Tag("WARNING:CONSUMER_NOT_IN_SLOT1"))
        \o When(ExpectedEx1FwdMissing(writes, rd1, dec1_fields, e),
                Tag("EXPECTED_EX1_FWD_NOT_FOUND"))
        \o When(e.busy_vec # ZeroWord, TagAt("busy=", e.busy_vec))
        \o When(e.load_pending_vec # ZeroWord, TagAt("ldpend=", e.load_pending_vec))
        \o When(exec0_fields.mnemonic = "system", Tag("HALT0"))
        \o When(exec1_fields.mnemonic = "system", Tag("HALT1"))

(***************************************************************************)
(* main after parse_trace has returned, and print_timeline's loop          *)
(***************************************************************************)
\* a variant that goes on to the metrics block on an empty trace
MainNoEntries_Metrics ==
    /\ mpc = "start"
    /\ entries = <<>>
    /\ report' = Metrics(entries)
    /\ mpc' = "done"
    /\ UNCHANGED <<timeline, prev_exec1_fields, prev_exec1_writes, prev_rd1, dvars, pvars>>

\* no usable record: emit the no-entries line and return
MainNoEntries ==
    /\ mpc = "start"
    /\ entries = <<>>
    /\ report' = [kind |-> "no_entries"]
    /\ mpc' = "done"
    /\ UNCHANGED <<timeline, prev_exec1_fields, prev_exec1_writes, prev_rd1, dvars, pvars>>

\* the metrics block, then the timeline's header and the loop's initial state
MainReport ==
    /\ mpc = "start"
    /\ entries # <<>>
    /\ report' = Metrics(entries)
    /\ timeline' = <<>>
    /\ prev_exec1_fields' = NoFields
    /\ prev_exec1_writes' = FALSE
    /\ prev_rd1' = NoReg
    /\ mpc' = "timeline"
    /\ UNCHANGED <<dvars, pvars>>

\* one iteration of print_timeline's loop (the disassembly columns are not modelled)
TimelineCycle ==
    /\ mpc = "timeline"
    /\ Len(timeline) < Len(entries)
    /\ LET disp_cycle == Len(timeline)
           e == entries[disp_cycle + 1]
           exec1_fields == decode_fields(e.exec1)
           exec1_writes_now == Exec1Writes(exec1_fields)
       IN  /\ timeline' = Append(timeline,
                                 [disp_cycle |-> disp_cycle, pc_f |-> e.pc_f,
                                  note |-> NoteParts(e, prev_exec1_writes, prev_rd1)])
           /\ prev_exec1_fields' = exec1_fields
           /\ prev_exec1_writes' = exec1_writes_now
           /\ prev_rd1' = IF exec1_writes_now THEN SomeReg(exec1_fields.rd) ELSE NoReg
    /\ UNCHANGED <<mpc, report, dvars, pvars>>

\* the loop is over: the report is written
MainFinish ==
    /\ mpc = "timeline"
    /\ Len(timeline) = Len(entries)
    /\ mpc' = "done"
    /\ UNCHANGED <<report, timeline, prev_exec1_fields, prev_exec1_writes, prev_rd1,
                   dvars, pvars>>

MainNext == MainNoEntries \/ MainReport \/ TimelineCycle \/ MainFinish

(***************************************************************************)
(* The parsed traces main is run on.                                       *)
(***************************************************************************)
MaxCycles == 3

\* a record whose words are 0, whose flags are clear and whose codes are 0
BlankEntry ==
    [ cycle |-> 0, pc_f |-> ZeroWord, fetch0 |-> ZeroWord, fetch1 |-> ZeroWord,
      decode0 |-> ZeroWord, decode1 |-> ZeroWord, issue0 |-> FALSE,
      issue1 |-> FALSE, exec0 |-> ZeroWord, exec1 |-> ZeroWord,
      result0 |-> ZeroWord, result1 |-> ZeroWord, branch_taken0 |-> FALSE,
      branch_taken1 |-> FALSE, jump_taken0 |-> FALSE, jump_taken1 |-> FALSE,
      branch_target0 |-> ZeroWord, branch_target1 |-> ZeroWord,
      jump_target0 |-> ZeroWord, jump_target1 |-> ZeroWord, mem0_re |-> FALSE,
      mem0_we |-> FALSE, mem1_re |-> FALSE, mem1_we |-> FALSE,
      mem_addr0 |-> ZeroWord, mem_addr1 |-> ZeroWord, fwd_rs1_0_en |-> FALSE,
      fwd_rs2_0_en |-> FALSE, fwd_rs1_1_src |-> 0, fwd_rs2_1_src |-> 0,
      stall_if |-> FALSE, raw1 |-> FALSE, waw1 |-> FALSE, load_use0 |-> FALSE,
      load_use1 |-> FALSE, busy_vec |-> ZeroWord, load_pending_vec |-> ZeroWord ]

BaseEntry(k) == [BlankEntry EXCEPT !.cycle = k, !.pc_f = W(0, 4 * k)]

AddX7 == MkWord(51, 7, 0, 1, 2, 0)          \* add x7, x1, x2
AddX0 == MkWord(51, 0, 0, 7, 7, 0)          \* add x0, x7, x7
SwX7 == MkWord(35, 7, 2, 1, 7, 0)           \* sw x7, 7(x1): its rd bits are 7
LuiX7 == MkWord(55, 7, 0, 7, 7, 0)          \* lui x7: its rs1 and rs2 bits are 7
AddiFrom7 == MkWord(19, 5, 0, 7, 7, 0)      \* addi x5, x7, 7
AddiImm7 == MkWord(19, 5, 0, 1, 7, 0)       \* addi x5, x1, 7: its rs2 bits are 7
AddiFrom5 == MkWord(19, 6, 0, 5, 0, 0)      \* addi x6, x5, 0
System == MkWord(115, 0, 0, 0, 0, 0)

ProducerWords == {AddX7, AddX0, SwX7, NOP}
LastExec1Words == {System}
Consumer0Words == {AddiFrom7, AddiImm7, SwX7, LuiX7}
ConsumerWords == {AddiFrom7, AddiImm7, SwX7, LuiX7, AddX0}
FwdCodes == {0, 1, 2}

\* lane-1 producers in every cycle, the consumers and forwarding codes in the last
HazardTrace(es) ==
    \E n \in 1..MaxCycles :
        \E p \in [1..(n - 1) -> ProducerWords],
           c \in LastExec1Words \X Consumer0Words \X ConsumerWords \X FwdCodes \X {0, 1} :
            es = [i \in 1..n |->
                    IF i < n
                    THEN [BaseEntry(i) EXCEPT !.exec1 = p[i]]
                    ELSE [BaseEntry(i) EXCEPT !.exec1 = c[1], !.decode0 = c[2],
                                              !.decode1 = c[3], !.fwd_rs1_1_src = c[4],
                                              !.fwd_rs2_1_src = c[5]]]

\* the scoreboard flags of the last cycle, with a lane-1 decode word that reads or not
FlagTrace(es) ==
    \E n \in 1..MaxCycles :
        \E c \in BOOLEAN \X BOOLEAN \X BOOLEAN \X BOOLEAN \X BOOLEAN
                 \X {AddiFrom7, LuiX7, NOP} :
            es = [i \in 1..n |->
                    IF i < n THEN BaseEntry(i)
                    ELSE [BaseEntry(i) EXCEPT !.raw1 = c[1], !.waw1 = c[2],
                                              !.load_use0 = c[3], !.load_use1 = c[4],
                                              !.stall_if = c[5], !.decode1 = c[6]]]

Exec0Words == {AddX7, AddX0, SwX7, NOP}
Decode0Words == {AddiFrom7, LuiX7, AddiFrom5, NOP}

\* lane-0 execute and decode words in every cycle (the first cycle's decode word is
\* never consulted by compute_hazards and stays 0, the last cycle's execute word
\* only retires or not); the empty trace is the case n = 0
MetricTrace(es) ==
    \E n \in 0..MaxCycles :
        \E x \in [1..(n - 1) -> Exec0Words], l \in {AddX7, NOP},
           d \in [2..n -> Decode0Words] :
            es = [i \in 1..n |->
                    [BaseEntry(i) EXCEPT !.exec0 = IF i < n THEN x[i] ELSE l,
                                         !.decode0 = IF i = 1 THEN ZeroWord ELSE d[i]]]

LwX7 == MkWord(3, 7, 2, 1, 0, 0)            \* lw x7, 0(x1)
JalX7 == MkWord(111, 7, 0, 0, 0, 0)         \* jal x7, 0
BeqX7 == MkWord(99, 7, 0, 1, 2, 0)          \* beq x1, x2: its rd bits are 7
UnknownX7 == MkWord(127, 7, 0, 0, 0, 0)     \* no known opcode: its rd bits are 7
SystemX7 == MkWord(115, 7, 0, 0, 0, 0)      \* system: its rd bits are 7

Lane1Words == {AddX7, AddiFrom7, LwX7, JalX7, SwX7, BeqX7, UnknownX7, SystemX7, AddX0, NOP}

\* lane-1 execute words of every kind in the cycle before the last, after cycles that
\* all write x7, and decode words of the last cycle that read x7, read x5 or read nothing
ProducerTrace(es) ==
    \E n \in 2..MaxCycles :
        \E c \in Lane1Words \X {LwX7, UnknownX7} \X {AddiFrom7, AddiFrom5, LuiX7}
                 \X {AddiFrom7, AddiFrom5, NOP} :
            es = [i \in 1..n |->
                    IF i < n - 1 THEN [BaseEntry(i) EXCEPT !.exec1 = AddX7]
                    ELSE IF i = n - 1 THEN [BaseEntry(i) EXCEPT !.exec1 = c[1]]
                    ELSE [BaseEntry(i) EXCEPT !.exec1 = c[2], !.decode0 = c[3],
                                              !.decode1 = c[4]]]

MainInit ==
    /\ \/ HazardTrace(entries)
       \/ FlagTrace(entries)
       \/ MetricTrace(entries)
       \/ ProducerTrace(entries)
    /\ pstatus = "returned"
    /\ header = <<>>
    /\ rows = <<>>
    /\ perr = "none"
    /\ mpc = "start"
    /\ report = NoReport
    /\ timeline = <<>>
    /\ prev_exec1_fields = NoFields
    /\ prev_exec1_writes = FALSE
    /\ prev_rd1 = NoReg
    /\ DecoderIdle

SpecMain == MainInit /\ [][MainNext]_vars

(***************************************************************************)
(* Properties                                                              *)
(***************************************************************************)
HasTag(note, t) == \E k \in DOMAIN note : note[k].tag = t

\* the instruction reads register r: its mnemonic reads rs1 (rs2) and its rs1 (rs2) is r
ReadsRs1(f, r) == f.mnemonic \in RS1_USERS /\ f.rs1 = r
ReadsRs2(f, r) == f.mnemonic \in RS2_USERS /\ f.rs2 = r
ReadsReg(f, r) == ReadsRs1(f, r) \/ ReadsRs2(f, r)

\* the lane-1 execute-stage instruction of cycle i writes a nonzero register
Lane1Produces(i) ==
    LET f == decode_fields(entries[i].exec1)
    IN  f.mnemonic \in WRITES_RD /\ f.rd # 0

Lane1Rd(i) == decode_fields(entries[i].exec1).rd
Dec0(i) == decode_fields(entries[i].decode0)
Dec1(i) == decode_fields(entries[i].decode1)

\* the cycles after the first whose timeline row has been emitted
LaterCycles == {i \in DOMAIN timeline : i >= 2}

\* C1: when the lane-1 execute instruction of the previous cycle writes a nonzero
\* register r, lane-0 decode reads r and lane-1 decode does not, the cycle's note
\* carries WARNING:CONSUMER_NOT_IN_SLOT1; the note never carries it when lane-1
\* decode reads r.
C1_ConsumerNotInSlot1 ==
    \A i \in LaterCycles :
        Lane1Produces(i - 1) =>
            /\ (ReadsReg(Dec0(i), Lane1Rd(i - 1)) /\ ~ReadsReg(Dec1(i), Lane1Rd(i - 1)))
                  => HasTag(timeline[i].note, "WARNING:CONSUMER_NOT_IN_SLOT1")
            /\ ReadsReg(Dec1(i), Lane1Rd(i - 1))
                  => ~HasTag(timeline[i].note, "WARNING:CONSUMER_NOT_IN_SLOT1")

\* a cycle flagged because lane 0 alone reads the register lane 1 just wrote
C1_Witness ==
    \E i \in LaterCycles :
        /\ Lane1Produces(i - 1)
        /\ ReadsRs1(Dec0(i), Lane1Rd(i - 1))
        /\ ~ReadsReg(Dec1(i), Lane1Rd(i - 1))
        /\ HasTag(timeline[i].note, "WARNING:CONSUMER_NOT_IN_SLOT1")

\* C2: with a lane-1 producer of r in the previous cycle, a cycle whose lane-1 decode
\* reads r carries EXPECTED_EX1_FWD_NOT_FOUND exactly when the lane-1 forwarding source
\* of an operand that reads r is not code 1; a cycle whose lane-1 decode does not read
\* r does not carry it.
C2_ExpectedForwarding ==
    \A i \in LaterCycles :
        Lane1Produces(i - 1) =>
            LET r == Lane1Rd(i - 1)
                flagged == HasTag(timeline[i].note, "EXPECTED_EX1_FWD_NOT_FOUND")
            IN  IF ReadsReg(Dec1(i), r)
                THEN flagged <=>
                        \/ ReadsRs1(Dec1(i), r) /\ entries[i].fwd_rs1_1_src # 1
                        \/ ReadsRs2(Dec1(i), r) /\ entries[i].fwd_rs2_1_src # 1
                ELSE ~flagged

\* a cycle flagged because lane 1 reads r through rs2 from a source other than EX1
C2_Witness ==
    \E i \in LaterCycles :
        /\ Lane1Produces(i - 1)
        /\ ReadsRs2(Dec1(i), Lane1Rd(i - 1))
        /\ entries[i].fwd_rs1_1_src = 1
        /\ entries[i].fwd_rs2_1_src # 1
        /\ HasTag(timeline[i].note, "EXPECTED_EX1_FWD_NOT_FOUND")

UnknownChars == {"x", "X", "z", "Z", "?"}

\* the cell holds a simulator-unknown token
UnknownText(cell) == ~cell.none /\ \E k \in DOMAIN cell.s : cell.s[k] \in UnknownChars

\* the row's PC text is absent or unknown
PcUnusable(row) ==
    IF "pc_f" \notin DOMAIN row THEN TRUE
    ELSE row["pc_f"].none \/ UnknownText(row["pc_f"])

\* the number of rows before the first whose PC is unusable
UsablePrefixLen(rs) ==
    IF \E i \in DOMAIN rs : PcUnusable(rs[i])
    THEN (CHOOSE i \in DOMAIN rs :
              PcUnusable(rs[i]) /\ \A j \in 1..(i - 1) : ~PcUnusable(rs[j])) - 1
    ELSE Len(rs)

NumericSpecs == {i \in DOMAIN FieldSpecs : FieldSpecs[i].kind \in {"cycle", "hex", "int"}}

ZeroOf(kind) == IF kind = "hex" THEN ZeroWord ELSE 0

\* every kept row stands at its place, an unknown numeric cell of it reading 0
KeptAsPrefix ==
    /\ Len(entries) = UsablePrefixLen(rows)
    /\ \A i \in DOMAIN entries :
          /\ ~PcUnusable(rows[i])
          /\ \A k \in NumericSpecs :
                (FieldSpecs[k].column \in DOMAIN rows[i]
                    /\ UnknownText(rows[i][FieldSpecs[k].column]))
                => entries[i][FieldSpecs[k].field] = ZeroOf(FieldSpecs[k].kind)

ParseOver == pstatus \in {"returned", "raised"}

\* the file has every column and its cells are well-formed or hold an unknown token
OnlyUnknownTokens ==
    /\ header = FullHeader
    /\ \A i \in DOMAIN rows : \A c \in DOMAIN rows[i] :
          rows[i][c] = PlainRow(header, i)[c] \/ UnknownText(rows[i][c])

\* C3: parse_trace returns exactly the rows before the first row whose pc_f is unknown
\* or absent, a kept row's unknown numeric cells reading 0 (stated for files whose
\* cells are well-formed or hold an unknown token).
C3_ReturnsUsablePrefix ==
    (ParseOver /\ OnlyUnknownTokens) => (pstatus = "returned" /\ KeptAsPrefix)

\* what holds of C3 whenever parse_trace does return
C3_PrefixWhenReturned == pstatus = "returned" => KeptAsPrefix

\* C4: parse_trace never raises on a malformed numeric cell.
C4_NeverRaises == pstatus # "raised"

\* an exception left parse_trace on a row whose PC is usable and whose cycle cell is "zz"
C4_RaisedOnUnknownCycle ==
    /\ pstatus = "raised"
    /\ perr = "ValueError"
    /\ ~PcUnusable(NextRow)
    /\ NextRow["cycle"] = Text(<<"z", "z">>)

TrueSpellings == { <<"1">>, <<"T", "R", "U", "E">>, <<"t", "r", "u", "e">>,
                   <<" ", "y", " ">>, <<"Y", "e", "s">> }

\* the cell, as written, spells true
SpellsTrue(row, column) ==
    IF column \notin DOMAIN row THEN FALSE
    ELSE ~row[column].none /\ row[column].s \in TrueSpellings

BoolSpecs == {i \in DOMAIN FieldSpecs : FieldSpecs[i].kind = "bool"}

FlagTags ==
    [ raw1 |-> {"RAW1(scoreboard)"}, waw1 |-> {"WAW1(scoreboard)"},
      load_use0 |-> {"LDUSE0"}, load_use1 |-> {"LDUSE1"}, stall_if |-> {"STALL(load-use0)"},
      branch_taken0 |-> {"BR0->"}, branch_taken1 |-> {"BR1->"},
      jump_taken0 |-> {"J0->"}, jump_taken1 |-> {"J1->"},
      mem0_re |-> {"MEM0(R)@", "MEM0(RW)@"}, mem0_we |-> {"MEM0(W)@", "MEM0(RW)@"},
      mem1_re |-> {"MEM1(R)@", "MEM1(RW)@"}, mem1_we |-> {"MEM1(W)@", "MEM1(RW)@"} ]

Decoded == DOMAIN decoded

\* C5 as stated: the all-zero word and the NOP word decode to the same record.
C5_NopRecordsEqual ==
    \A i, j \in Decoded :
        (prog[i] = ZeroWord /\ prog[j] = NOP) => decoded[i] = decoded[j]

\* C5 as the code has it: both decode to mnemonic nop with no immediate, whatever the
\* opcode bits say (the NOP word is not dispatched as an addi), and the two records
\* agree in every field but opcode, which is 0 for the one and 0x13 for the other.
C5_NopRecordsAgreeButOpcode ==
    \A i, j \in Decoded :
        (prog[i] = ZeroWord /\ prog[j] = NOP) =>
            /\ decoded[i].mnemonic = "nop" /\ decoded[j].mnemonic = "nop"
            /\ decoded[i].imm = NoImm /\ decoded[j].imm = NoImm
            /\ [decoded[i] EXCEPT !.opcode = 19] = decoded[j]
            /\ decoded[i].opcode = 0

C5_Witness ==
    /\ Len(decoded) = 2
    /\ prog = <<ZeroWord, NOP>>
    /\ decoded[2].mnemonic = "nop"

IFormat == {19, 3, 103}
SFormat == {35}
BFormat == {99}
JFormat == {111}
UFormat == {55, 23}
ImmFormats == IFormat \cup SFormat \cup BFormat \cup JFormat \cup UFormat

\* the two's-complement value of an n-bit field
TwosComplement(field, n) == IF field >= Pow2(n - 1) THEN field - Pow2(n) ELSE field

\* the immediate field of the word, as the RV32I layout places it
ImmField(w) ==
    LET op == Bits(w, 0, 7)
    IN  CASE op \in IFormat -> Bits(w, 20, 12)
          [] op \in SFormat -> Bits(w, 25, 7) * 32 + Bits(w, 7, 5)
          [] op \in BFormat -> Bit(w, 31) * 4096 + Bit(w, 7) * 2048
                               + Bits(w, 25, 6) * 32 + Bits(w, 8, 4) * 2
          [] op \in JFormat -> Bit(w, 31) * 1048576 + Bits(w, 12, 8) * 4096
                               + Bit(w, 20) * 2048 + Bits(w, 21, 10) * 2

ImmWidth(op) ==
    CASE op \in IFormat \cup SFormat -> 12 [] op \in BFormat -> 13 [] op \in JFormat -> 21

\* the word the decoded fields encode in the RV32I layout of their format
Encode(f) ==
    CASE f.opcode \in IFormat ->
            LET m == f.imm.val % 4096
            IN  MkWord(f.opcode, f.rd, f.funct3, f.rs1, m % 32, m \div 32)
      [] f.opcode \in SFormat ->
            LET m == f.imm.val % 4096
            IN  MkWord(f.opcode, m % 32, f.funct3, f.rs1, f.rs2, m \div 32)
      [] f.opcode \in BFormat ->
            LET m == f.imm.val % 8192
            IN  MkWord(f.opcode, (((m \div 2) % 16) * 2) + ((m \div 2048) % 2), f.funct3,
                       f.rs1, f.rs2, (((m \div 4096) % 2) * 64) + ((m \div 32) % 64))
      [] f.opcode \in JFormat ->
            LET m == f.imm.val % 2097152
            IN  MkWord(f.opcode, f.rd, (m \div 4096) % 8, (m \div 32768) % 32,
                       ((m \div 2048) % 2) + (((m \div 2) % 16) * 2),
                       ((m \div 32) % 64) + (((m \div 1048576) % 2) * 64))
      [] f.opcode \in UFormat ->
            W(f.imm.word.hi, f.imm.word.lo + f.rd * 128 + f.opcode)

IsShiftImm(f) == f.opcode = 19 /\ f.funct3 \in {1, 5}

\* the immediate is the two's-complement value of the format's field
SignedImm(w, f) ==
    f.opcode \in UFormat \/ f.imm.val = TwosComplement(ImmField(w), ImmWidth(f.opcode))

\* C6 as stated: every word of an immediate format re-encodes to itself from its
\* decoded fields, and its immediate is the two's-complement value of the field.
C6_RoundTripAllWords ==
    \A i \in Decoded :
        decoded[i].opcode \in ImmFormats =>
            /\ decoded[i].imm.some
            /\ Encode(decoded[i]) = prog[i]
            /\ SignedImm(prog[i], decoded[i])

\* C6 as the code has it: the same for every word but the NOP word 0x00000013, which
\* has no immediate, and with the immediate of a shift (opcode 0x13, funct3 1 or 5)
\* being the unsigned 12-bit field.
C6_RoundTrip ==
    \A i \in Decoded :
        (decoded[i].opcode \in ImmFormats /\ prog[i] # NOP) =>
            /\ decoded[i].imm.some
            /\ Encode(decoded[i]) = prog[i]
            /\ IF IsShiftImm(decoded[i])
               THEN decoded[i].imm.val = Bits(prog[i], 20, 12)
               ELSE SignedImm(prog[i], decoded[i])
            /\ (decoded[i].opcode \in BFormat \cup JFormat => decoded[i].imm.val % 2 = 0)
            /\ (prog[i] = W(65523, 659) =>
                    /\ decoded[i].mnemonic = "addi"
                    /\ decoded[i].rd = 5 /\ decoded[i].rs1 = 6
                    /\ decoded[i].imm = ImmInt(-1))
            /\ (prog[i] = W(98, 33891) =>
                    decoded[i].mnemonic = "beq" /\ decoded[i].imm = ImmInt(8))

\* 0xFFF30293 has been decoded, with a negative immediate, and re-encodes to itself
C6_Witness ==
    \E i \in Decoded :
        /\ prog[i] = W(65523, 659)
        /\ decoded[i].imm.val < 0
        /\ Encode(decoded[i]) = prog[i]

ScoreboardTags(note) ==
    [ raw1 |-> HasTag(note, "RAW1(scoreboard)"), waw1 |-> HasTag(note, "WAW1(scoreboard)"),
      load_use0 |-> HasTag(note, "LDUSE0"), load_use1 |-> HasTag(note, "LDUSE1"),
      stall_if |-> HasTag(note, "STALL(load-use0)") ]

\* C8 as stated: each scoreboard tag is in the note exactly when its flag is set.
C8_ScoreboardAsIs ==
    \A i \in DOMAIN timeline :
        \A f \in {"raw1", "waw1", "load_use0", "load_use1", "stall_if"} :
            ScoreboardTags(timeline[i].note)[f] <=> entries[i][f]

\* C8 as the code has it: the WAW1, LDUSE0, LDUSE1 and STALL tags are in the note
\* exactly when their flags are set; the RAW1 tag is in the note exactly when raw1 is
\* set and the lane-1 decode-stage mnemonic reads rs1 or rs2.
C8_ScoreboardTags ==
    \A i \in DOMAIN timeline :
        /\ \A f \in {"waw1", "load_use0", "load_use1", "stall_if"} :
              ScoreboardTags(timeline[i].note)[f] <=> entries[i][f]
        /\ ScoreboardTags(timeline[i].note).raw1 <=>
              (entries[i].raw1 /\ Dec1(i).mnemonic \in RS1_USERS \cup RS2_USERS)

\* raw1 set with a lane-1 decode word that reads no register: no RAW1 tag, the other
\* flags of the cycle rendered
C8_Witness ==
    \E i \in DOMAIN timeline :
        /\ entries[i].raw1 /\ entries[i].waw1 /\ entries[i].stall_if
        /\ Dec1(i).mnemonic = "lui"
        /\ ~HasTag(timeline[i].note, "RAW1(scoreboard)")
        /\ HasTag(timeline[i].note, "WAW1(scoreboard)")

\* the cycles that count: a lane-0 decode word that is no NOP, one of whose rs1 / rs2
\* bit fields is the nonzero rd bit field of the previous cycle's lane-0 execute word,
\* itself no NOP
RawCycles ==
    {i \in 2..Len(entries) :
        LET d == decode_fields(entries[i].decode0)
            x == decode_fields(entries[i - 1].exec0)
        IN  /\ x.mnemonic # "nop" /\ d.mnemonic # "nop"
            /\ x.rd # 0
            /\ x.rd \in {d.rs1, d.rs2}}

\* C9: the potential-RAW metric is the number of cycles i >= 1 whose decode-stage
\* instruction has a source register equal to the nonzero destination register of the
\* execute-stage instruction of cycle i-1, neither being a NOP (lane 0, register bit
\* fields as decoded).
C9_PotentialRaw ==
    report.kind = "metrics" => report.potential_raw = Cardinality(RawCycles)

\* two cycles count, one after a write to x0 does not
C9_Witness ==
    /\ report.kind = "metrics"
    /\ report.potential_raw = 2
    /\ Len(entries) = 3
    /\ \E i \in 1..2 : decode_fields(entries[i].exec0).rd # 0

\* the mnemonics the claim names as never producing
NonProducers == {"nop", "unknown", "system"} \cup StoreOps \cup BranchOps

\* the producer state expected after the cycles processed so far
PendingAfter(k) ==
    IF k >= 1 /\ Lane1Produces(k) THEN SomeReg(Lane1Rd(k)) ELSE NoReg

\* C11: the producer state carries one cycle of lookback. After cycle i has been
\* processed, pending_rd is the rd of its lane-1 execute instruction when that
\* instruction's mnemonic writes rd and rd is not 0, and none otherwise (nop, unknown,
\* stores, branches, system and writes to x0 never produce). Neither
\* WARNING:CONSUMER_NOT_IN_SLOT1 nor EXPECTED_EX1_FWD_NOT_FOUND is in the note of the
\* first cycle or of a cycle whose predecessor had no producer, and a note carries one
\* only when a decode instruction of that cycle reads, by its mnemonic, the register
\* the immediately preceding cycle produced.
C11_OneCycleLookback ==
    LET k == Len(timeline)
    IN  /\ prev_rd1 = PendingAfter(k)
        /\ prev_exec1_writes = prev_rd1.some
        /\ (k >= 1 /\ (decode_fields(entries[k].exec1).mnemonic \in NonProducers
                        \/ Lane1Rd(k) = 0))
              => prev_rd1 = NoReg
        /\ \A i \in DOMAIN timeline :
              LET cn == HasTag(timeline[i].note, "WARNING:CONSUMER_NOT_IN_SLOT1")
                  fm == HasTag(timeline[i].note, "EXPECTED_EX1_FWD_NOT_FOUND")
              IN  IF i = 1 THEN ~cn /\ ~fm
                  ELSE /\ ~Lane1Produces(i - 1) => ~cn /\ ~fm
                       /\ cn => ReadsReg(Dec0(i), Lane1Rd(i - 1))
                       /\ fm => ReadsReg(Dec1(i), Lane1Rd(i - 1))

\* an older cycle produced x7, the cycle before wrote nothing although its rd bits are
\* 7 (a store), and the cycle that reads x7 in lane 0 carries neither flag
C11_Witness ==
    /\ Len(timeline) = 3
    /\ Lane1Produces(1) /\ Lane1Rd(1) = 7
    /\ decode_fields(entries[2].exec1).mnemonic \in StoreOps /\ Lane1Rd(2) = 7
    /\ ReadsReg(Dec0(3), 7)
    /\ ~HasTag(timeline[3].note, "WARNING:CONSUMER_NOT_IN_SLOT1")
    /\ ~HasTag(timeline[3].note, "EXPECTED_EX1_FWD_NOT_FOUND")
    /\ prev_rd1 = SomeReg(7)

====
